---- MODULE Spec2Model ----
(***************************************************************************)
(* Model of src/main.py: the adaptive quiz difficulty controller           *)
(* (QuizAgent), the /quiz/grade endpoint that feeds it through the         *)
(* process-wide quiz_agent instance, the per-topic performance aggregation *)
(* of the /planner/create and /performance endpoints, and                  *)
(* PlannerAgent.create_revision_plan.                                       *)
(*                                                                         *)
(* Scores are fractions.  A score k/n is kept as the pair (num, den) and   *)
(* the comparisons  score > 0.8  and  score < 0.5  are done by cross       *)
(* multiplication.  Python's int/int true division is correctly rounded,   *)
(* 0.5 is a double and 0.8 is the double nearest 4/5, so for the window    *)
(* sizes considered the float comparison and the exact one agree.          *)
(***************************************************************************)
EXTENDS Integers, Sequences, FiniteSets, TLC

VARIABLES
    accuracy_tracker,    \* QuizAgent.accuracy_tracker of the global quiz_agent
    pending,             \* history: outcomes recorded since the last decision
    ret,                 \* what the most recent call / request returned
    performance_metrics, \* rows of the performance_metrics table
    documents,           \* ids of the rows of the documents table
    caller               \* a client that feeds each decision back as the next
                         \* current_difficulty, with the history of its run

vars == <<accuracy_tracker, pending, ret, performance_metrics, documents, caller>>

(***************************************************************************)
(* Bounds of the model.                                                    *)
(***************************************************************************)
MaxWindow == 5      \* longest accuracy window explored
MaxBatch == 2       \* longest "results" list of one grading oracle answer
MaxQuiz == 2        \* most questions in one /quiz/grade request

Sessions == {"s1", "s2"}               \* context_id of a quiz session
Levels == {"Easy", "Medium", "Hard"}

(***************************************************************************)
(* Small helpers.                                                          *)
(***************************************************************************)
RECURSIVE SeqsUpTo(_, _)
SeqsUpTo(S, n) ==
    IF n = 0 THEN {<<>>}
    ELSE LET shorter == SeqsUpTo(S, n - 1)
         IN  shorter \cup {Append(q, x) : q \in {r \in shorter : Len(r) = n - 1}, x \in S}

RECURSIVE CountTrue(_)
\* sum(self.accuracy_tracker): True counts 1, False counts 0
CountTrue(t) ==
    IF t = <<>> THEN 0
    ELSE (IF Head(t).ok THEN 1 ELSE 0) + CountTrue(Tail(t))

(***************************************************************************)
(* The grading oracle.  Its answer either raises (API error, unparsable    *)
(* JSON), is JSON that is no object, or is an object whose "results" is    *)
(* absent or a list of items.  An item is an object with is_correct true   *)
(* ("T") or false ("F"), an object without is_correct ("missing"), or no   *)
(* object at all ("bad").                                                  *)
(***************************************************************************)
Items == {"T", "F", "missing", "bad"}

GradeAnswers ==
    {[kind |-> "raise", results |-> <<>>], [kind |-> "notdict", results |-> <<>>],
     [kind |-> "noresults", results |-> <<>>]}
    \cup {[kind |-> "dict", results |-> r] : r \in SeqsUpTo(Items, MaxBatch)}

\* item.get("is_correct", False)
IsCorrect(item) == item = "T"

RECURSIVE GoodPrefix(_)
\* the items track_results reaches before item.get raises on a non-object
GoodPrefix(results) ==
    IF results = <<>> \/ Head(results) = "bad" THEN <<>>
    ELSE <<Head(results)>> \o GoodPrefix(Tail(results))

\* track_results: for item in results: accuracy_tracker.append(item.get(...))
TrackResults(tracker, results, s) ==
    tracker \o [i \in 1..Len(GoodPrefix(results)) |->
                  [ok |-> IsCorrect(results[i]), sess |-> s, uses |-> 0]]

\* track_results raises AttributeError when it meets an item that is no object
TrackRaises(results) == \E i \in 1..Len(results) : results[i] = "bad"

\* does QuizAgent.grade_quiz take its except branch
GradeFails(ans) ==
    \/ ans.kind \in {"raise", "notdict"}
    \/ ans.kind = "dict" /\ TrackRaises(ans.results)

\* the list QuizAgent.grade_quiz returns, as the is_correct item of each entry
GradeReturn(n, ans) ==
    IF GradeFails(ans) THEN [i \in 1..n |-> "F"]
    ELSE ans.results

\* the tracker after QuizAgent.grade_quiz
GradeTrack(tracker, ans, s) ==
    IF ans.kind = "dict" THEN TrackResults(tracker, ans.results, s) ELSE tracker

RECURSIVE CountCorrect(_)
\* sum(1 for r in results if r.get("is_correct", False))
CountCorrect(results) ==
    IF results = <<>> THEN 0
    ELSE (IF IsCorrect(Head(results)) THEN 1 ELSE 0) + CountCorrect(Tail(results))

NoPending == [total |-> 0, correct |-> 0]

Record(p, results) ==
    [total |-> p.total + Len(GoodPrefix(results)),
     correct |-> p.correct + CountCorrect(GoodPrefix(results))]

(***************************************************************************)
(* POST /quiz/grade                                                        *)
(***************************************************************************)
GradeQuizEndpoint(s, n, ans) ==
    LET results == GradeReturn(n, ans)
        correct_count == CountCorrect(results)
    IN  /\ Len(accuracy_tracker) + Len(ans.results) <= MaxWindow
        /\ accuracy_tracker' = GradeTrack(accuracy_tracker, ans, s)
        /\ pending' = IF ans.kind = "dict" THEN Record(pending, ans.results) ELSE pending
        /\ ret' = [kind |-> "grade", sess |-> s, failed |-> GradeFails(ans),
                   oracle |-> ans.kind,
                   results |-> results,
                   \* history: how long the tracker was when the request arrived
                   before |-> Len(accuracy_tracker),
                   \* QuizResult(score=correct_count / len(results) if results else 0.0)
                   row |-> [document_id |-> s, correct |-> correct_count,
                            total_questions |-> Len(results)],
                   \* GradeResponse(results=results) needs a bool is_correct
                   status |-> IF \E i \in 1..Len(results) : results[i] = "missing"
                              THEN 500 ELSE 200]
        /\ UNCHANGED <<performance_metrics, documents, caller>>

(***************************************************************************)
(* QuizAgent.track_results called directly on the global instance          *)
(***************************************************************************)
TrackResultsCall(s, results) ==
    /\ Len(accuracy_tracker) + Len(results) <= MaxWindow
    /\ accuracy_tracker' = TrackResults(accuracy_tracker, results, s)
    /\ pending' = Record(pending, results)
    /\ ret' = [kind |-> "track", sess |-> s, raised |-> TrackRaises(results)]
    /\ UNCHANGED <<performance_metrics, documents, caller>>

(***************************************************************************)
(* QuizAgent.get_next_difficulty                                           *)
(***************************************************************************)
\* the level returned when the tracker is empty
NoDataLevel_Keep(current_difficulty) == current_difficulty

NoDataLevel(current_difficulty) == "Easy"

NextLevel_EscalateAtBoundary(current_difficulty, num, den) ==
    IF 10 * num >= 8 * den
    THEN IF current_difficulty = "Easy" THEN "Medium" ELSE "Hard"
    ELSE IF 10 * num < 5 * den
         THEN IF current_difficulty = "Hard" THEN "Medium" ELSE "Easy"
         ELSE current_difficulty

NextLevel_NoCeilingStep(current_difficulty, num, den) ==
    IF 10 * num > 8 * den
    THEN "Hard"
    ELSE IF 10 * num < 5 * den
         THEN IF current_difficulty = "Hard" THEN "Medium" ELSE "Easy"
         ELSE current_difficulty

NextLevel_DropToEasy(current_difficulty, num, den) ==
    IF 10 * num > 8 * den
    THEN IF current_difficulty = "Easy" THEN "Medium" ELSE "Hard"
    ELSE IF 10 * num < 5 * den
         THEN "Easy"
         ELSE current_difficulty

NextLevel_NoDeescalate(current_difficulty, num, den) ==
    IF 10 * num > 8 * den
    THEN IF current_difficulty = "Easy" THEN "Medium" ELSE "Hard"
    ELSE current_difficulty

NextLevel_HoldMedium(current_difficulty, num, den) ==
    IF 10 * num > 8 * den
    THEN IF current_difficulty = "Easy" THEN "Medium" ELSE current_difficulty
    ELSE IF 10 * num < 5 * den
         THEN IF current_difficulty = "Hard" THEN "Medium" ELSE "Easy"
         ELSE current_difficulty

\* the if / elif / else over score = num / den
NextLevel(current_difficulty, num, den) ==
    IF 10 * num > 8 * den
    THEN IF current_difficulty = "Easy" THEN "Medium" ELSE "Hard"
    ELSE IF 10 * num < 5 * den
         THEN IF current_difficulty = "Hard" THEN "Medium" ELSE "Easy"
         ELSE current_difficulty

\* every entry the score is computed from has been read once more
MarkUsed(tracker) ==
    [i \in 1..Len(tracker) |->
        [tracker[i] EXCEPT !.uses = IF @ < 2 THEN @ + 1 ELSE @]]

ClearTracker_Keep(tracker) == tracker

\* self.accuracy_tracker.clear()
ClearTracker(tracker) == <<>>

\* the call's effect on the agent and its return value
GetNextDifficultyCall(s, current_difficulty) ==
    /\ IF accuracy_tracker = <<>>
       THEN /\ ret' = [kind |-> "decide", sess |-> s, cur |-> current_difficulty,
                       nodata |-> TRUE, num |-> 0, den |-> 0,
                       result |-> NoDataLevel(current_difficulty),
                       sessions |-> {}, reused |-> FALSE, recorded |-> pending]
            /\ accuracy_tracker' = accuracy_tracker
       ELSE LET num == CountTrue(accuracy_tracker)
                den == Len(accuracy_tracker)
            IN  /\ ret' = [kind |-> "decide", sess |-> s, cur |-> current_difficulty,
                           nodata |-> FALSE, num |-> num, den |-> den,
                           result |-> NextLevel(current_difficulty, num, den),
                           sessions |-> {accuracy_tracker[i].sess :
                                            i \in 1..Len(accuracy_tracker)},
                           reused |-> \E i \in 1..Len(accuracy_tracker) :
                                          accuracy_tracker[i].uses > 0,
                           recorded |-> pending]
                /\ accuracy_tracker' = ClearTracker(MarkUsed(accuracy_tracker))
    /\ pending' = NoPending
    /\ UNCHANGED <<performance_metrics, documents>>

\* a call with a current_difficulty of the caller's choosing
GetNextDifficulty(s, current_difficulty) ==
    /\ GetNextDifficultyCall(s, current_difficulty)
    /\ UNCHANGED caller

(***************************************************************************)
(* A client that passes the level it was last given as current_difficulty. *)
(* Its record keeps the level it started from, the level it holds, how many *)
(* decisions it has asked for (counted up to MaxDecisions) and whether      *)
(* every one of them was taken on a window with accuracy above 0.8, or      *)
(* every one on a window with accuracy below 0.5.                           *)
(***************************************************************************)
MaxDecisions == 3   \* the decision count saturates here

StartAt(level) ==
    [start |-> level, level |-> level, decisions |-> 0,
     all_high |-> TRUE, all_low |-> TRUE]

FeedBack(c, decision) ==
    [start |-> c.start,
     level |-> decision.result,
     decisions |-> IF c.decisions < MaxDecisions THEN c.decisions + 1 ELSE c.decisions,
     all_high |-> c.all_high /\ ~decision.nodata
                    /\ 10 * decision.num > 8 * decision.den,
     all_low |-> c.all_low /\ ~decision.nodata
                    /\ 10 * decision.num < 5 * decision.den]

\* get_next_difficulty(caller's level), the result becoming the caller's level
FedBackDecision(s) ==
    /\ GetNextDifficultyCall(s, caller.level)
    /\ caller' = FeedBack(caller, ret')

(***************************************************************************)
(* The quiz specification: QuizAgent() at import time, then any            *)
(* interleaving of requests and calls on the one global instance.          *)
(***************************************************************************)
NoReturn == [kind |-> "none"]

Init ==
    /\ accuracy_tracker = <<>>
    /\ pending = NoPending
    /\ ret = NoReturn
    /\ performance_metrics = <<>>
    /\ documents = Sessions     \* the documents uploaded so far
    /\ caller = StartAt("Easy")

Next ==
    \/ \E s \in Sessions, n \in 0..MaxQuiz, ans \in GradeAnswers :
          GradeQuizEndpoint(s, n, ans)
    \/ \E s \in Sessions, results \in SeqsUpTo(Items, MaxBatch) :
          TrackResultsCall(s, results)
    \/ \E s \in Sessions, cur \in Levels : GetNextDifficulty(s, cur)

Spec == Init /\ [][Next]_vars

(***************************************************************************)
(* Topic performance aggregation.  A row of performance_metrics is          *)
(* (document_id, topic, score); a score is kept in tenths, so 8 stands for  *)
(* 0.8 and 15 for 1.5.  An average is the fraction num / den of tenths.     *)
(***************************************************************************)
MaxMetrics == 3     \* most rows in the performance_metrics table

Documents == Sessions                  \* context ids of the documents stored at start
UnknownId == "s0"                      \* a context id with no Document row
Topics == {"algebra", "geometry"}
ScoreValues == {4, 8, 15}

MetricRows == [document_id : Documents, topic : Topics, score : ScoreValues]

\* db.query(PerformanceMetric).filter(PerformanceMetric.document_id == id).all()
QueryMetrics(rows, context_id) ==
    SelectSeq(rows, LAMBDA m : m.document_id = context_id)

RECURSIVE SumSeq(_)
SumSeq(v) == IF v = <<>> THEN 0 ELSE Head(v) + SumSeq(Tail(v))

RECURSIVE GroupByTopic_Overwrite(_, _)
GroupByTopic_Overwrite(rows, dict) ==
    IF rows = <<>> THEN dict
    ELSE LET metric == Head(rows)
         IN  GroupByTopic_Overwrite(Tail(rows),
                 (metric.topic :> <<metric.score>>) @@ dict)

RECURSIVE GroupByTopic(_, _)
\* for metric in performance_metrics:
\*     if metric.topic not in d: d[metric.topic] = []
\*     d[metric.topic].append(metric.score)
GroupByTopic(rows, dict) ==
    IF rows = <<>> THEN dict
    ELSE LET metric == Head(rows)
             with_key == IF metric.topic \notin DOMAIN dict
                         THEN dict @@ (metric.topic :> <<>>)
                         ELSE dict
         IN  GroupByTopic(Tail(rows),
                 [with_key EXCEPT ![metric.topic] = Append(@, metric.score)])

\* sum(v)/len(v) if v else <default>
Average(v, default) ==
    IF v # <<>> THEN [num |-> SumSeq(v), den |-> Len(v)] ELSE default

\* /planner/create: {k: sum(v)/len(v) if v else 0.5 for k, v in d.items()}
PlannerAverages(rows) ==
    LET d == GroupByTopic(rows, <<>>)
    IN  [k \in DOMAIN d |-> Average(d[k], [num |-> 5, den |-> 1])]

\* /performance: {k: sum(v)/len(v) if v else 0.0 for k, v in d.items()}
StatsAverages(rows) ==
    LET d == GroupByTopic(rows, <<>>)
    IN  [k \in DOMAIN d |-> Average(d[k], [num |-> 0, den |-> 1])]

(***************************************************************************)
(* PlannerAgent.create_revision_plan.  A datetime is (day, tick) with       *)
(* TicksPerDay ticks in a day; the request arrives at day 0, tick 0.        *)
(***************************************************************************)
TicksPerDay == 2    \* resolution of the clock
MaxPlanLen == 2     \* longest "plan" list of one planning oracle answer
MaxExamDay == 2     \* latest day of a supplied exam date

DefaultDays == 30

Ticks(dt) == dt.day * TicksPerDay + dt.tick
AtTicks(n) == [day |-> n \div TicksPerDay, tick |-> n % TicksPerDay]

\* dt + timedelta(days=n)
PlusDays(dt, n) == [day |-> dt.day + n, tick |-> dt.tick]

\* exam_date of the request: absent, no ISO date, or an ISO date-time with or
\* without a time zone
ExamDates ==
    {[kind |-> k, day |-> 0, tick |-> 0] : k \in {"absent", "unparsable"}}
    \cup [kind : {"naive"}, day : -1..MaxExamDay, tick : 0..(TicksPerDay - 1)]
    \cup {[kind |-> "aware", day |-> MaxExamDay, tick |-> 0]}

\* the planning oracle's answer: raises, JSON that is no object, an object
\* without "plan", or an object whose "plan" is a list; an entry of the list is
\* an object with a "day" number, or no object (obj = FALSE).  The entries of
\* one answer carry no "date", or the date the oracle wrote.
OracleDays == {1, 2}

PlanEntries ==
    {[obj |-> TRUE, day |-> d] : d \in OracleDays} \cup {[obj |-> FALSE, day |-> 0]}

NoDate == [day |-> -1, tick |-> 0]
OracleDate == [day |-> 7, tick |-> 1]

\* content: the entry's topics, duration_minutes and focus, as the oracle wrote
\* them
WithDates(p, d) ==
    [i \in 1..Len(p) |->
        [obj |-> p[i].obj, day |-> p[i].day, date |-> d, content |-> "oracle"]]

PlanAnswers ==
    {[kind |-> k, plan |-> <<>>] : k \in {"raise", "notdict", "noplan"}}
    \cup {[kind |-> "dict", plan |-> WithDates(p, d)] :
              p \in SeqsUpTo(PlanEntries, MaxPlanLen), d \in {NoDate, OracleDate}}

TopicRequests == {"none", "empty", "some"}

\* exam_dt: fromisoformat(exam_date), else now + 30 days
ExamDt(exam_date) ==
    IF exam_date.kind \in {"naive", "aware"}
    THEN [day |-> exam_date.day, tick |-> exam_date.tick]
    ELSE [day |-> DefaultDays, tick |-> 0]

\* exam_dt - datetime.now() raises TypeError for an aware minus a naive datetime
SubtractRaises(exam_date) == exam_date.kind = "aware"

\* (exam_dt - datetime.now()).days, now being `elapsed` ticks after the request
\* arrived (exam_dt = now + 30 days was computed at arrival); timedelta.days
\* is the floor
RawDays(exam_date, elapsed) ==
    (Ticks(ExamDt(exam_date)) - elapsed) \div TicksPerDay

\* days_until_exam = max(1, days_until_exam)
DaysUntilExam(exam_date, elapsed) ==
    IF RawDays(exam_date, elapsed) > 1 THEN RawDays(exam_date, elapsed) ELSE 1

\* the try body raises: the oracle call or json.loads, data.get on a non-object,
\* or day_plan["date"] = ... on an entry that is no object
PlanFails(ans) ==
    \/ ans.kind \in {"raise", "notdict"}
    \/ \E i \in 1..Len(ans.plan) : ~ans.plan[i].obj

StampDates_KeepOracle(plan, start_date) ==
    [i \in 1..Len(plan) |->
        [day |-> plan[i].day, content |-> plan[i].content,
         date |-> IF plan[i].date = NoDate THEN PlusDays(start_date, i - 1)
                  ELSE plan[i].date]]

\* for i, day_plan in enumerate(plan): day_plan["date"] = start_date + i days
StampDates(plan, start_date) ==
    [i \in 1..Len(plan) |->
        [day |-> plan[i].day, content |-> plan[i].content,
         date |-> PlusDays(start_date, i - 1)]]

\* the dictionary create_revision_plan returns; start_date = datetime.now() is
\* read `latency` ticks after days_until_exam was computed
PlanData(exam_date, elapsed, latency, ans) ==
    [plan |-> IF PlanFails(ans) THEN <<>>
              ELSE StampDates(ans.plan, AtTicks(elapsed + latency)),
     summary |-> IF PlanFails(ans) THEN "error" ELSE "oracle",
     exam_date |-> ExamDt(exam_date),
     days_until_exam |-> DaysUntilExam(exam_date, elapsed)]

(***************************************************************************)
(* POST /planner/create                                                    *)
(***************************************************************************)
CreateRevisionPlanEndpoint(context_id, exam_date, topics, elapsed, latency, ans) ==
    LET performance_dict == PlannerAverages(QueryMetrics(performance_metrics, context_id))
        request == [context_id |-> context_id, exam_date |-> exam_date.kind,
                    topics |-> topics]
    IN  /\ ret' =
              IF context_id \notin documents
              THEN [kind |-> "plan", status |-> 404, request |-> request]
              ELSE IF SubtractRaises(exam_date)
              THEN [kind |-> "plan", status |-> 500, request |-> request,
                    raised |-> "TypeError",
                    performance_dict |-> performance_dict]
              ELSE [kind |-> "plan", status |-> 200, request |-> request,
                    performance_dict |-> performance_dict,
                    \* current_performance=performance_dict if performance_dict else None
                    no_performance |-> (DOMAIN performance_dict = {}),
                    failed |-> PlanFails(ans),
                    \* history: the horizon before max(1, .), and when the
                    \* plan was stamped
                    raw_days |-> RawDays(exam_date, elapsed),
                    created |-> AtTicks(elapsed + latency),
                    plan_data |-> PlanData(exam_date, elapsed, latency, ans)]
        /\ UNCHANGED <<accuracy_tracker, pending, performance_metrics, documents, caller>>

(***************************************************************************)
(* GET /performance/{context_id}                                           *)
(***************************************************************************)
GetPerformanceStats(context_id) ==
    /\ ret' = [kind |-> "stats", status |-> 200,
               request |-> [context_id |-> context_id],
               topic_performance |->
                   StatsAverages(QueryMetrics(performance_metrics, context_id))]
    /\ UNCHANGED <<accuracy_tracker, pending, performance_metrics, documents, caller>>

(***************************************************************************)
(* The other oracle-backed endpoints.  The oracle's answer fails with an    *)
(* OpenAIError ("api_error"), is text json.loads rejects ("bad_json"), is   *)
(* no text at all ("no_content": json.loads(None) raises TypeError), is     *)
(* JSON that is no object ("notdict"), or is an object ("dict").            *)
(***************************************************************************)
MaxUploads == 2     \* most documents uploaded in one run

OracleFailures == {"api_error", "bad_json", "no_content", "notdict"}

\* get_context_text: HTTPException(404) when no Document row has the id
ContextFound(context_id) == context_id \in documents

\* QuizAgent.generate_quiz: what the oracle's object holds under "questions":
\* nothing, or a list of question objects
QuizAnswers ==
    {[kind |-> k, questions |-> 0] : k \in OracleFailures}
    \cup {[kind |-> "dict", questions |-> n] : n \in 0..MaxQuiz}

\* QuizAgent.generate_quiz returns [] from `if not quiz` and from except Exception
GenerateQuizReturn(ans) ==
    IF ans.kind \in OracleFailures \/ ans.questions = 0
    THEN [fallback |-> TRUE, questions |-> 0]
    ELSE [fallback |-> FALSE, questions |-> ans.questions]

\* POST /quiz/generate
GenerateQuizEndpoint(context_id, ans) ==
    /\ ret' = IF ~ContextFound(context_id)
              THEN [kind |-> "generate", status |-> 404, context_id |-> context_id]
              ELSE [kind |-> "generate", status |-> 200, context_id |-> context_id,
                    oracle |-> ans.kind, returned |-> GenerateQuizReturn(ans)]
    /\ UNCHANGED <<accuracy_tracker, pending, performance_metrics, documents, caller>>

\* PlannerAgent.get_topic_analysis: data.get("topics", []), [] from except Exception
TopicAnswers ==
    {[kind |-> k, topics |-> 0] : k \in OracleFailures}
    \cup {[kind |-> "dict", topics |-> n] : n \in 0..2}

TopicAnalysisReturn(ans) ==
    IF ans.kind \in OracleFailures
    THEN [fallback |-> TRUE, topics |-> 0]
    ELSE [fallback |-> ans.topics = 0, topics |-> ans.topics]

\* POST /planner/topics
AnalyzeTopicsEndpoint(context_id, ans) ==
    /\ ret' = IF ~ContextFound(context_id)
              THEN [kind |-> "topics", status |-> 404, context_id |-> context_id]
              ELSE [kind |-> "topics", status |-> 200, context_id |-> context_id,
                    oracle |-> ans.kind, returned |-> TopicAnalysisReturn(ans)]
    /\ UNCHANGED <<accuracy_tracker, pending, performance_metrics, documents, caller>>

DoubtAnswers == OracleFailures \cup {"dict"}

\* DoubtAgent.ask_question; `question` is FALSE when the question is empty or
\* the context blank.  Only json.JSONDecodeError and openai.OpenAIError are
\* caught; json.loads' value is returned whatever it is.
AskQuestion(question, oracle) ==
    IF ~question THEN [raised |-> FALSE, value |-> "error_answer"]
    ELSE CASE oracle = "api_error" -> [raised |-> FALSE, value |-> "error_answer"]
           [] oracle = "bad_json" -> [raised |-> FALSE, value |-> "error_answer"]
           [] oracle = "no_content" -> [raised |-> TRUE, value |-> "TypeError"]
           [] oracle = "notdict" -> [raised |-> FALSE, value |-> "not_an_object"]
           [] oracle = "dict" -> [raised |-> FALSE, value |-> "answer"]

\* POST /doubt: DoubtResponse(answer=answer.get(...), reference=answer.get(...))
AskDoubtEndpoint(context_id, question, oracle) ==
    LET answer == AskQuestion(question, oracle)
    IN  /\ ret' = IF ~ContextFound(context_id)
                  THEN [kind |-> "doubt", status |-> 404, context_id |-> context_id]
                  ELSE [kind |-> "doubt", context_id |-> context_id,
                        asked |-> question, oracle |-> oracle, returned |-> answer,
                        \* answer.get raises AttributeError on a value that is
                        \* no object
                        status |-> IF answer.raised \/ answer.value = "not_an_object"
                                   THEN 500 ELSE 200]
        /\ UNCHANGED <<accuracy_tracker, pending, performance_metrics, documents, caller>>

(***************************************************************************)
(* POST /upload.  extract_text raises, returns "" or returns text.  The     *)
(* HTTPException(400) for "" is raised inside the try whose                 *)
(* `except Exception` answers 500.                                          *)
(***************************************************************************)
Extractions == {"raises", "empty", "text"}

UploadNames == <<"u1", "u2", "u3", "u4">>

\* str(uuid.uuid4()): an id no row has
FreshId == UploadNames[Cardinality(documents \ Documents) + 1]

\* the response of upload_document
UploadStatus(extracted) ==
    CASE extracted = "text" -> [status |-> 200, detail |-> "none"]
      [] extracted = "empty" -> [status |-> 500, detail |-> "An error occurred"]
      [] extracted = "raises" -> [status |-> 500, detail |-> "An error occurred"]

UploadDocument(extracted) ==
    /\ Cardinality(documents \ Documents) < MaxUploads
    /\ documents' = IF extracted = "text" THEN documents \cup {FreshId} ELSE documents
    /\ ret' = [kind |-> "upload", extracted |-> extracted,
               response |-> UploadStatus(extracted),
               \* history: the rows stored when the request arrived
               rows_before |-> documents]
    /\ UNCHANGED <<accuracy_tracker, pending, performance_metrics, caller>>

(***************************************************************************)
(* SpecPlan: the planning requests the application serves.  No code writes  *)
(* performance_metrics, so the table is as the application creates it.      *)
(***************************************************************************)
PerfAnswers ==
    {[kind |-> "raise", plan |-> <<>>], [kind |-> "noplan", plan |-> <<>>],
     [kind |-> "dict", plan |-> WithDates(<<[obj |-> TRUE, day |-> 1]>>, NoDate)]}

NextPlan ==
    \* a request that names no topics, with every exam date and oracle answer
    \/ \E e \in ExamDates, elapsed \in 0..1, latency \in 0..1, ans \in PlanAnswers :
          CreateRevisionPlanEndpoint("s1", e, "none", elapsed, latency, ans)
    \* every kind of topic list, with three oracle answers
    \/ \E e \in ExamDates, t \in TopicRequests, ans \in PerfAnswers :
          CreateRevisionPlanEndpoint("s1", e, t, 1, 1, ans)
    \* a context id that was never uploaded
    \/ \E e \in ExamDates, t \in TopicRequests :
          CreateRevisionPlanEndpoint(UnknownId, e, t, 0, 0,
                                     [kind |-> "noplan", plan |-> <<>>])
    \/ \E c \in {"s1", UnknownId} : GetPerformanceStats(c)

SpecPlan == Init /\ [][NextPlan]_vars

(***************************************************************************)
(* SpecPerf: the two aggregating endpoints over every table of at most      *)
(* MaxMetrics rows (the table is filled from outside the application).      *)
(* The planning request is the default one and the oracle's answer is one   *)
(* of three.                                                                *)
(***************************************************************************)
InitPerf ==
    /\ accuracy_tracker = <<>>
    /\ pending = NoPending
    /\ ret = NoReturn
    /\ performance_metrics \in SeqsUpTo(MetricRows, MaxMetrics)
    /\ documents = Documents
    /\ caller = StartAt("Easy")

NextPerf ==
    \/ \E c \in Documents \cup {UnknownId}, ans \in PerfAnswers :
          CreateRevisionPlanEndpoint(c, [kind |-> "absent", day |-> 0, tick |-> 0],
                                     "none", 1, 1, ans)
    \/ \E c \in Documents \cup {UnknownId} : GetPerformanceStats(c)

SpecPerf == InitPerf /\ [][NextPerf]_vars

(***************************************************************************)
(* SpecApp: the requests the application serves that reach the quiz agent.  *)
(* No endpoint calls get_next_difficulty.                                   *)
(***************************************************************************)
NextApp ==
    \/ \E s \in Sessions, n \in 0..MaxQuiz, ans \in GradeAnswers :
          GradeQuizEndpoint(s, n, ans)
    \/ \E c \in Sessions \cup {UnknownId}, ans \in QuizAnswers :
          GenerateQuizEndpoint(c, ans)

SpecApp == Init /\ [][NextApp]_vars

(***************************************************************************)
(* SpecDocs: uploads and the five oracle-backed operations.  Grading and    *)
(* planning are driven with answers that leave the tracker alone.           *)
(***************************************************************************)
FailingGradeAnswers ==
    {[kind |-> "raise", results |-> <<>>], [kind |-> "notdict", results |-> <<>>]}

NextDocs ==
    \/ \E x \in Extractions : UploadDocument(x)
    \/ \E c \in documents \cup {UnknownId}, ans \in QuizAnswers :
          GenerateQuizEndpoint(c, ans)
    \/ \E c \in documents \cup {UnknownId}, ans \in TopicAnswers :
          AnalyzeTopicsEndpoint(c, ans)
    \/ \E c \in documents \cup {UnknownId}, q \in BOOLEAN, ans \in DoubtAnswers :
          AskDoubtEndpoint(c, q, ans)
    \/ \E s \in Sessions, n \in 0..MaxQuiz, ans \in FailingGradeAnswers :
          GradeQuizEndpoint(s, n, ans)
    \/ \E ans \in PerfAnswers :
          CreateRevisionPlanEndpoint("s1", [kind |-> "absent", day |-> 0, tick |-> 0],
                                     "none", 1, 1, ans)

SpecDocs == Init /\ [][NextDocs]_vars

(***************************************************************************)
(* SpecLoop: one quiz session whose client starts at any level, has its     *)
(* batches graded into the tracker and feeds every decision back.           *)
(***************************************************************************)
Outcomes == {"T", "F"}

InitLoop ==
    /\ accuracy_tracker = <<>>
    /\ pending = NoPending
    /\ ret = NoReturn
    /\ performance_metrics = <<>>
    /\ documents = Sessions
    /\ caller \in {StartAt(level) : level \in Levels}

NextLoop ==
    \/ \E results \in SeqsUpTo(Outcomes, MaxBatch) : TrackResultsCall("s1", results)
    \/ FedBackDecision("s1")

SpecLoop == InitLoop /\ [][NextLoop]_vars

(***************************************************************************)
(* Claims about the difficulty controller, checked under Spec.             *)
(***************************************************************************)
Decided == ret.kind = "decide"

Rank(level) == CASE level = "Easy" -> 1 [] level = "Medium" -> 2 [] level = "Hard" -> 3

\* C1: with an empty accuracy window (no data) get_next_difficulty returns
\* Easy, whatever the current difficulty is.
C1_NoDataReturnsEasy ==
    (Decided /\ ret.nodata /\ ret.cur \in Levels) => ret.result = "Easy"

C1_Witness == Decided /\ ret.nodata /\ ret.cur = "Hard" /\ ret.result = "Easy"

\* C2: a non-empty window with accuracy strictly above 0.8 escalates by one
\* level with a ceiling: Easy -> Medium, Medium -> Hard, Hard -> Hard.
C2_EscalateOneStep ==
    (Decided /\ ~ret.nodata /\ 5 * ret.num > 4 * ret.den) =>
        ret.result = CASE ret.cur = "Easy" -> "Medium"
                       [] ret.cur = "Medium" -> "Hard"
                       [] ret.cur = "Hard" -> "Hard"

C2_Witness ==
    Decided /\ ~ret.nodata /\ ret.num = 5 /\ ret.den = 5 /\ ret.cur = "Easy"
    /\ ret.result = "Medium"

\* C3: a non-empty window with accuracy strictly below 0.5 de-escalates by one
\* level with a floor: Hard -> Medium, Medium -> Easy, Easy -> Easy.
C3_DeescalateOneStep ==
    (Decided /\ ~ret.nodata /\ 2 * ret.num < ret.den) =>
        ret.result = CASE ret.cur = "Hard" -> "Medium"
                       [] ret.cur = "Medium" -> "Easy"
                       [] ret.cur = "Easy" -> "Easy"

C3_Witness ==
    Decided /\ ~ret.nodata /\ ret.num = 1 /\ ret.den = 3 /\ ret.cur = "Medium"
    /\ ret.result = "Easy"

\* C4: a non-empty window with accuracy in the closed band 0.5..0.8 (4 of 5
\* and 1 of 2 included) leaves the current difficulty unchanged.
C4_StayInBand ==
    (Decided /\ ~ret.nodata /\ 2 * ret.num >= ret.den /\ 5 * ret.num <= 4 * ret.den) =>
        ret.result = ret.cur

C4_Witness ==
    Decided /\ ~ret.nodata /\ ret.num = 4 /\ ret.den = 5 /\ ret.cur = "Medium"
    /\ ret.result = "Medium"

\* C5 as stated: every decision, with an empty window or not, returns a level at
\* most one step away from the current one.
C5_AlwaysAdjacent ==
    Decided => (Rank(ret.result) - Rank(ret.cur)) \in {-1, 0, 1}

\* C5 as amended: every decision taken on a non-empty window returns a level at
\* most one step away from the current one; on an empty window the result is
\* Easy, which from Hard is two steps.
C5_AdjacentWithData ==
    /\ (Decided /\ ~ret.nodata) => (Rank(ret.result) - Rank(ret.cur)) \in {-1, 0, 1}
    /\ (Decided /\ ret.nodata) => Rank(ret.result) = 1

C5_Witness ==
    Decided /\ ~ret.nodata /\ ret.cur = "Hard" /\ 2 * ret.num < ret.den
    /\ ret.result = "Medium"

\* C6: the window is consumed exactly once: a decision counts exactly the
\* outcomes recorded since the previous decision (correct / total), no outcome
\* is counted by two decisions, the window is empty after every decision, and a
\* decision with nothing recorded since the previous one (or since construction)
\* takes the no-data path.
C6_ConsumedExactlyOnce ==
    /\ \A i \in 1..Len(accuracy_tracker) : accuracy_tracker[i].uses = 0
    /\ Decided =>
        /\ accuracy_tracker = <<>>
        /\ ~ret.reused
        /\ ret.nodata <=> ret.recorded.total = 0
        /\ ret.den = ret.recorded.total
        /\ ret.num = ret.recorded.correct

C6_Witness ==
    Decided /\ ~ret.nodata /\ ret.num = 2 /\ ret.den = 3 /\ accuracy_tracker = <<>>

\* C7: the outcomes one session recorded are never part of the window from
\* which another session's next difficulty is computed.
C7_SessionConfined ==
    Decided => ret.sessions \subseteq {ret.sess}

(***************************************************************************)
(* Claims about topic aggregation, checked under SpecPerf.                 *)
(***************************************************************************)
\* the rows of the table that belong to a document and a topic
RowsOf(context_id, topic) ==
    {i \in 1..Len(performance_metrics) :
        /\ performance_metrics[i].document_id = context_id
        /\ performance_metrics[i].topic = topic}

RECURSIVE TotalScore(_)
TotalScore(idx) ==
    IF idx = {} THEN 0
    ELSE LET i == CHOOSE j \in idx : TRUE
         IN  performance_metrics[i].score + TotalScore(idx \ {i})

\* is `mapping` the per-topic arithmetic mean of the rows of `context_id`
IsMeanPerTopic(mapping, context_id) ==
    /\ DOMAIN mapping = {t \in Topics : RowsOf(context_id, t) # {}}
    /\ \A t \in DOMAIN mapping :
          mapping[t].num * Cardinality(RowsOf(context_id, t))
              = TotalScore(RowsOf(context_id, t)) * mapping[t].den

Aggregated ==
    \/ ret.kind = "stats"
    \/ ret.kind = "plan" /\ ret.status # 404

AggregatedMapping ==
    IF ret.kind = "stats" THEN ret.topic_performance ELSE ret.performance_dict

\* C8: the mapping built by /planner/create and the one built by /performance
\* map each topic that has a record to the arithmetic mean of its scores, hold
\* no topic without a record, and agree on every record set.
C8_MeanPerTopic ==
    /\ Aggregated => IsMeanPerTopic(AggregatedMapping, ret.request.context_id)
    /\ \A c \in Documents :
          PlannerAverages(QueryMetrics(performance_metrics, c))
              = StatsAverages(QueryMetrics(performance_metrics, c))

C8_Witness ==
    /\ ret.kind = "plan" /\ ret.status = 200
    /\ DOMAIN ret.performance_dict = {"algebra"}
    /\ ret.performance_dict["algebra"] = [num |-> 12, den |-> 2]
    /\ Len(performance_metrics) = 3

\* C9: when a record passed to the aggregation has a score outside [0,1], the
\* aggregation signals INVALID_SCORE and produces no mapping.
C9_InvalidScoreSignalled ==
    (Aggregated /\ \E t \in Topics : \E i \in RowsOf(ret.request.context_id, t) :
                      performance_metrics[i].score \notin 0..10)
        => (ret.status # 200 /\ DOMAIN AggregatedMapping = {})

(***************************************************************************)
(* Claims about the revision plan, checked under SpecPlan.                 *)
(***************************************************************************)
PlanReturned == ret.kind = "plan" /\ ret.status = 200 /\ ~ret.failed

\* C10: a plan returned on the success path has exactly days_until_exam entries,
\* numbered 1, 2, ..., days_until_exam in order.
C10_OneEntryPerDay ==
    PlanReturned =>
        /\ Len(ret.plan_data.plan) = ret.plan_data.days_until_exam
        /\ \A i \in 1..Len(ret.plan_data.plan) : ret.plan_data.plan[i].day = i

\* C11: in every plan returned, the date of the first entry is the plan-creation
\* time and the date of each later entry is exactly one calendar day after the
\* date of the entry before it, whatever dates the oracle wrote.
C11_DatesStepOneDay ==
    PlanReturned =>
        LET plan == ret.plan_data.plan
        IN  /\ plan # <<>> => plan[1].date = ret.created
            /\ \A i \in 1..(Len(plan) - 1) :
                  /\ plan[i + 1].date.day = plan[i].date.day + 1
                  /\ plan[i + 1].date.tick = plan[i].date.tick

C11_Witness ==
    /\ PlanReturned
    /\ Len(ret.plan_data.plan) = 2
    /\ ret.created = [day |-> 1, tick |-> 0]
    /\ ret.plan_data.plan[2].date = [day |-> 2, tick |-> 0]

PlanKeys == {"plan", "summary", "exam_date", "days_until_exam"}

\* C12: a planning request whose horizon is less than 1 day signals
\* INVALID_HORIZON and produces no plan: no such request is answered with a
\* plan, and the horizon is not replaced by another value.
C12_InvalidHorizonSignalled ==
    (ret.kind = "plan" /\ ret.status = 200) =>
        /\ ret.raw_days >= 1
        /\ ret.plan_data.days_until_exam = ret.raw_days

\* C13: a planning request with an empty topic list returns exactly horizon day
\* entries, each with no topics, duration 0 and focus low, together with a
\* DEGENERATE_PLAN advisory.
C13_DegeneratePlan ==
    (ret.kind = "plan" /\ ret.status = 200 /\ ret.request.topics = "empty") =>
        /\ Len(ret.plan_data.plan) = ret.plan_data.days_until_exam
        /\ \A i \in 1..Len(ret.plan_data.plan) :
              ret.plan_data.plan[i].content = "degenerate"
        /\ DOMAIN ret.plan_data # PlanKeys

\* C17: for every exam_date input (absent, unparsable, ISO without or with a
\* time zone) create_revision_plan returns a dictionary with the keys plan,
\* summary, exam_date and days_until_exam and never raises.
C17_NeverRaises ==
    (ret.kind = "plan" /\ ret.request.context_id \in documents) =>
        /\ ret.status = 200
        /\ DOMAIN ret.plan_data = PlanKeys

\* C20: when no exam_date is supplied, or the supplied one cannot be parsed, the
\* exam is taken to be 30 days from now and days_until_exam is 30.
C20_DefaultThirtyDays ==
    (ret.kind = "plan" /\ ret.status = 200
        /\ ret.request.exam_date \in {"absent", "unparsable"}) =>
        /\ ret.plan_data.exam_date = [day |-> 30, tick |-> 0]
        /\ ret.plan_data.days_until_exam = 30

(***************************************************************************)
(* Claims about grading requests.                                          *)
(***************************************************************************)
Graded == ret.kind = "grade"

\* the outcomes the last grading request appended to the tracker
Appended == SubSeq(accuracy_tracker, ret.before + 1, Len(accuracy_tracker))

\* C14 (SpecApp): each graded batch is consumed by a difficulty decision before
\* the next batch is graded, so a grading request finds the window empty and the
\* window does not grow across successive /quiz/grade requests.
C14_OneBatchPerWindow ==
    Graded => ret.before = 0

\* C16 (Spec): when grade_quiz takes its failure path the tracker holds exactly
\* the outcomes it held before the call.
C16_FailureTracksNothing ==
    (Graded /\ ret.failed) => Len(accuracy_tracker) = ret.before

\* C18 (Spec): the QuizResult row a grading request persists has the score of
\* exactly the outcomes the same request appended to the tracker.
C18_RowMatchesTracked ==
    Graded =>
        /\ ret.row.total_questions = Len(Appended)
        /\ ret.row.correct = CountTrue(Appended)

(***************************************************************************)
(* Claims checked under SpecDocs.                                          *)
(***************************************************************************)
\* C15: whenever the oracle call raises or its output is malformed, each of
\* generate_quiz, grade_quiz, get_topic_analysis, create_revision_plan and
\* ask_question returns its empty / error fallback and no exception reaches the
\* caller.
C15_FallbackOnOracleFailure ==
    /\ (ret.kind \in {"generate", "topics"} /\ ret.status # 404
          /\ ret.oracle \in OracleFailures) =>
            (ret.status = 200 /\ ret.returned.fallback)
    /\ (ret.kind = "doubt" /\ ret.status # 404 /\ ret.asked
          /\ ret.oracle \in OracleFailures) =>
            (~ret.returned.raised /\ ret.returned.value = "error_answer")
    /\ (Graded /\ ret.oracle \in {"raise", "notdict"}) =>
            (ret.failed /\ \A i \in 1..Len(ret.results) : ret.results[i] = "F")
    /\ (ret.kind = "plan" /\ ret.status = 200 /\ ret.failed) =>
            (ret.plan_data.plan = <<>> /\ ret.plan_data.summary = "error")

\* C19: an upload from which no text can be extracted is answered with status
\* 400 and the detail 'Could not extract any text from the document.', and no
\* Document row is stored for it.
C19_EmptyUploadIs400 ==
    (ret.kind = "upload" /\ ret.extracted = "empty") =>
        /\ ret.response.status = 400
        /\ ret.response.detail = "Could not extract any text"
        /\ documents = ret.rows_before

(***************************************************************************)
(* Claims about fed-back decisions, checked under SpecLoop.                 *)
(***************************************************************************)
\* C21: when each decision's result is fed back as the next current
\* difficulty, from any starting level: if every window so far had accuracy
\* above 0.8 the level is Hard once two decisions were taken and at every later
\* decision, if every window so far had accuracy below 0.5 the level is Easy
\* likewise, and the level is always one of Easy, Medium, Hard.
C21_ConvergesInTwo ==
    /\ caller.level \in Levels
    /\ (caller.decisions >= 2 /\ caller.all_high) => caller.level = "Hard"
    /\ (caller.decisions >= 2 /\ caller.all_low) => caller.level = "Easy"

C21_Witness ==
    /\ caller.start = "Easy" /\ caller.decisions = MaxDecisions
    /\ caller.all_high /\ caller.level = "Hard"
    /\ Decided /\ ret.cur = "Hard"

====
